---- MODULE Spec2Model ----
(***************************************************************************)
(* Model of canonicalize (canonical.go): the token loop that rewrites the  *)
(* decoder's Start/End/CharData tokens into canonical XML text, the        *)
(* namespace scope stack it drives, the canonical attribute order, and the *)
(* identifier taken from the first start element.                          *)
(*                                                                         *)
(* Strings are sequences of byte values, so that strings.HasPrefix,        *)
(* strings.HasSuffix, Go's string "<" and fmt.Fprintf's concatenation are  *)
(* computed, not looked up.  An io.Writer is the sequence of the chunks    *)
(* written to it; each chunk records the source line of the call that      *)
(* wrote it and, for an attribute, the attribute it was written for.       *)
(***************************************************************************)
EXTENDS Integers, Sequences, FiniteSets, TLC

(***************************************************************************)
(* Bounds of the model.                                                    *)
(***************************************************************************)
\* tokens read by one call in specification Spec
MaxTokens == 4
\* attributes of the root's start element in specification SpecRoot
MaxAttrs == 3

(***************************************************************************)
(* String literals of the source and of the inputs, as byte sequences.     *)
(***************************************************************************)
s_http == <<104, 116, 116, 112>>
s_xmlns == <<120, 109, 108, 110, 115>>
s_ID == <<73, 68>>
s_Id == <<73, 100>>
\* "http:a", "http:b": namespaces that look like HTTP URIs
ns_a == <<104, 116, 116, 112, 58, 97>>
ns_b == <<104, 116, 116, 112, 58, 98>>
\* "urn:d": a namespace URI that does not start with "http"
ns_urn == <<117, 114, 110, 58, 100>>
\* " xmlns=\"", the text that opens a default-namespace declaration
s_xmlnsDecl == <<32, 120, 109, 108, 110, 115, 61, 34>>

(***************************************************************************)
(* strings package and Go's string comparison.                             *)
(***************************************************************************)
HasPrefix(s, prefix) ==
    /\ Len(s) >= Len(prefix)
    /\ SubSeq(s, 1, Len(prefix)) = prefix

HasSuffix(s, suffix) ==
    /\ Len(s) >= Len(suffix)
    /\ SubSeq(s, Len(s) - Len(suffix) + 1, Len(s)) = suffix

RECURSIVE StrLess(_, _)
StrLess(a, b) ==
    IF b = <<>> THEN FALSE
    ELSE IF a = <<>> THEN TRUE
    ELSE IF a[1] # b[1] THEN a[1] < b[1]
    ELSE StrLess(Tail(a), Tail(b))

(***************************************************************************)
(* xml.Name, xml.Attr and the tokens of encoding/xml.                      *)
(***************************************************************************)
Name(space, local) == [Space |-> space, Local |-> local]
Attr(space, local, value) == [Name |-> Name(space, local), Value |-> value]
StartElement(name, attr) == [type |-> "StartElement", Name |-> name, Attr |-> attr]
EndElement(name) == [type |-> "EndElement", Name |-> name]
CharData(bytes) == [type |-> "CharData", Data |-> bytes]
\* xml.Comment, xml.ProcInst, xml.Directive: no case of the switch
OtherToken == [type |-> "Other"]

\* one call of a write on an io.Writer
Chunk(line, text) == [line |-> line, text |-> text]
AttChunk(line, text, att) == [line |-> line, text |-> text, att |-> att]

RECURSIVE Bytes(_)
Bytes(chunks) ==
    IF chunks = <<>> THEN <<>>
    ELSE chunks[1].text \o Bytes(Tail(chunks))

(***************************************************************************)
(* The namespace scope stack (type stack).                                 *)
(***************************************************************************)
Push(s, v) == Append(s, v)

Top(s) ==
    IF Len(s) = 0 THEN [val |-> <<>>, err |-> TRUE]
    ELSE [val |-> s[Len(s)], err |-> FALSE]

Pop(s) ==
    IF Len(s) = 0 THEN [s |-> s, val |-> <<>>, err |-> TRUE]
    ELSE [s |-> SubSeq(s, 1, Len(s) - 1), val |-> s[Len(s)], err |-> FALSE]

(***************************************************************************)
(* canonAtt: sort.Interface over a slice of xml.Attr.                      *)
(***************************************************************************)
\* Less without the rule that puts xmlns:<prefix> declarations second
Less_NoDeclRule(att, i, j) ==
    LET iName == att[i].Name
        jName == att[j].Name
    IN  IF iName.Local = s_xmlns THEN TRUE
        ELSE IF jName.Local = s_xmlns THEN FALSE
        ELSE IF iName.Space # jName.Space THEN StrLess(iName.Space, jName.Space)
        ELSE StrLess(iName.Local, jName.Local)

Less(att, i, j) ==
    LET iName == att[i].Name
        jName == att[j].Name
    IN  IF iName.Local = s_xmlns THEN TRUE
        ELSE IF jName.Local = s_xmlns THEN FALSE
        ELSE IF iName.Space = s_xmlns
             THEN IF jName.Space # s_xmlns THEN TRUE
                  ELSE StrLess(iName.Local, jName.Local)
        ELSE IF jName.Space = s_xmlns THEN FALSE
        ELSE IF iName.Space # jName.Space THEN StrLess(iName.Space, jName.Space)
        ELSE StrLess(iName.Local, jName.Local)

Swap(att, i, j) == [att EXCEPT ![i] = att[j], ![j] = att[i]]

\* sort.Sort on a slice of at most 12 elements is an insertion sort:
\*   for i := 1; i < n; i++ { for j := i; j > 0 && Less(j, j-1); j-- { Swap(j, j-1) } }
\* (indices here are 1-based)
RECURSIVE SortInner(_, _)
SortInner(att, j) ==
    IF j > 1 /\ Less(att, j, j - 1)
    THEN SortInner(Swap(att, j, j - 1), j - 1)
    ELSE att

RECURSIVE SortOuter(_, _)
SortOuter(att, i) ==
    IF i > Len(att) THEN att
    ELSE SortOuter(SortInner(att, i), i + 1)

Sort(att) == SortOuter(att, 2)

(***************************************************************************)
(* writeNameSapce and writeStartElement.                                   *)
(***************************************************************************)
XmlnsText(namespace) == s_xmlnsDecl \o namespace \o <<34>>

\* writeNameSapce without the comparison against the top of the stack
writeNameSapce_NoCompare(namespaces, writer, start) ==
    [writer |-> IF HasPrefix(start.Name.Space, s_http)
                THEN Append(writer, Chunk(75, XmlnsText(start.Name.Space)))
                ELSE writer,
     namespaces |-> Push(namespaces, start.Name.Space)]

\* writeNameSapce declaring only on an empty stack
writeNameSapce_RootOnly(namespaces, writer, start) ==
    [writer |-> IF Top(namespaces).err /\ HasPrefix(start.Name.Space, s_http)
                THEN Append(writer, Chunk(75, XmlnsText(start.Name.Space)))
                ELSE writer,
     namespaces |-> Push(namespaces, start.Name.Space)]

\* writeNameSapce pushing only when it wrote a declaration
writeNameSapce_PushIfDeclared(namespaces, writer, start) ==
    LET top == Top(namespaces)
        namespace == start.Name.Space
    IN  IF (top.err \/ top.val # namespace) /\ HasPrefix(namespace, s_http)
        THEN [writer |-> Append(writer, Chunk(75, XmlnsText(namespace))),
              namespaces |-> Push(namespaces, namespace)]
        ELSE [writer |-> writer, namespaces |-> namespaces]

writeNameSapce(namespaces, writer, start) ==
    LET top == Top(namespaces)
        currentNs == top.val
        namespace == start.Name.Space
        declared ==
            IF top.err
            THEN IF HasPrefix(namespace, s_http)
                 THEN Append(writer, Chunk(75, XmlnsText(namespace)))
                 ELSE writer
            ELSE IF currentNs # namespace /\ HasPrefix(namespace, s_http)
                 THEN Append(writer, Chunk(81, XmlnsText(namespace)))
                 ELSE writer
    IN  [writer |-> declared, namespaces |-> Push(namespaces, namespace)]

\* a lookup that falls back to the namespace itself, as element names do
NsLookup_KeyWhenAbsent(nsmap, key) == IF key \in DOMAIN nsmap THEN nsmap[key] ELSE key

\* nsmap[key], "" when the key is absent
NsLookup(nsmap, key) == IF key \in DOMAIN nsmap THEN nsmap[key] ELSE <<>>

NsStore(nsmap, key, val) ==
    [k \in DOMAIN nsmap \cup {key} |-> IF k = key THEN val ELSE nsmap[k]]

\* " xmlns:<local>=\"<value>\""
NsDeclText(att) ==
    <<32>> \o s_xmlns \o <<58>> \o att.Name.Local \o <<61, 34>> \o att.Value \o <<34>>

\* " <local>=\"<value>\""
PlainAttText(att) == <<32>> \o att.Name.Local \o <<61, 34>> \o att.Value \o <<34>>

\* " <prefix>:<local>=\"<value>\""
PrefixedAttText(prefix, att) ==
    <<32>> \o prefix \o <<58>> \o att.Name.Local \o <<61, 34>> \o att.Value \o <<34>>

\* the loop leaving out a namespaced attribute whose namespace has no prefix
RECURSIVE AttrLoop_DropUndeclared(_, _, _, _)
AttrLoop_DropUndeclared(writer, attrs, i, nsmap) ==
    IF i > Len(attrs) THEN writer
    ELSE LET att == attrs[i]
         IN  IF att.Name.Local = s_xmlns
             THEN AttrLoop_DropUndeclared(writer, attrs, i + 1, nsmap)
             ELSE IF att.Name.Space = s_xmlns
             THEN AttrLoop_DropUndeclared(
                      Append(writer, AttChunk(106, NsDeclText(att), att)),
                      attrs, i + 1, NsStore(nsmap, att.Value, att.Name.Local))
             ELSE IF att.Name.Space = <<>>
             THEN AttrLoop_DropUndeclared(
                      Append(writer, AttChunk(112, PlainAttText(att), att)),
                      attrs, i + 1, nsmap)
             ELSE IF att.Name.Space \notin DOMAIN nsmap
             THEN AttrLoop_DropUndeclared(writer, attrs, i + 1, nsmap)
             ELSE AttrLoop_DropUndeclared(
                      Append(writer,
                             AttChunk(114, PrefixedAttText(nsmap[att.Name.Space], att), att)),
                      attrs, i + 1, nsmap)

\* the loop over the sorted attributes, from index i on
RECURSIVE AttrLoop(_, _, _, _)
AttrLoop(writer, attrs, i, nsmap) ==
    IF i > Len(attrs) THEN writer
    ELSE LET att == attrs[i]
         IN  IF att.Name.Local = s_xmlns
             THEN AttrLoop(writer, attrs, i + 1, nsmap)
             ELSE IF att.Name.Space = s_xmlns
             THEN AttrLoop(Append(writer, AttChunk(106, NsDeclText(att), att)),
                           attrs, i + 1, NsStore(nsmap, att.Value, att.Name.Local))
             ELSE IF att.Name.Space = <<>>
             THEN AttrLoop(Append(writer, AttChunk(112, PlainAttText(att), att)),
                           attrs, i + 1, nsmap)
             ELSE AttrLoop(Append(writer,
                               AttChunk(114,
                                        PrefixedAttText(NsLookup(nsmap, att.Name.Space), att),
                                        att)),
                           attrs, i + 1, nsmap)

\* "<space:local" or "<local"
OpenText(name) ==
    IF ~HasPrefix(name.Space, s_http)
    THEN <<60>> \o name.Space \o <<58>> \o name.Local
    ELSE <<60>> \o name.Local

OpenLine(name) == IF ~HasPrefix(name.Space, s_http) THEN 90 ELSE 92

\* the start element's attributes left in input order
SortAttr_None(start) == start.Attr

SortAttr(start) == Sort(start.Attr)

writeStartElement(writer, start, namespaces) ==
    LET opened == Append(writer, Chunk(OpenLine(start.Name), OpenText(start.Name)))
        sorted == SortAttr(start)
        ns == writeNameSapce(namespaces, opened, start)
        looped == AttrLoop(ns.writer, sorted, 1, <<>>)
    IN  [writer |-> Append(looped, Chunk(117, <<62>>)), namespaces |-> ns.namespaces]

(***************************************************************************)
(* The cases of the token switch in canonicalize, on the locals of the     *)
(* call: loc = [namespaces, outWriter, firstElem, id].                     *)
(***************************************************************************)
Qualifies(localName) ==
    localName = s_ID \/ localName = s_Id \/ HasSuffix(localName, s_Id)

\* for i := range t.Attr { if <qualifies> { id = t.Attr[i].Value } }
RECURSIVE ScanId(_, _, _)
ScanId(attr, i, cur) ==
    IF i > Len(attr) THEN cur
    ELSE ScanId(attr, i + 1,
                IF Qualifies(attr[i].Name.Local) THEN attr[i].Value ELSE cur)

\* the scan for an identifier made after sort.Sort instead of before it
IdAfterStart_Sorted(loc, t) ==
    IF loc.firstElem THEN ScanId(Sort(t.Attr), 1, loc.id) ELSE loc.id

\* the scan for an identifier made on every start element
IdAfterStart_Always(loc, t) == ScanId(t.Attr, 1, loc.id)

IdAfterStart(loc, t) ==
    IF loc.firstElem THEN ScanId(t.Attr, 1, loc.id) ELSE loc.id

StartCase(loc, t) ==
    LET w == writeStartElement(loc.outWriter, t, loc.namespaces)
    IN  [namespaces |-> w.namespaces,
         outWriter |-> w.writer,
         firstElem |-> FALSE,
         id |-> IdAfterStart(loc, t)]

\* the close tag always written as "</local>"
CloseText_Bare(name) == <<60, 47>> \o name.Local \o <<62>>

\* "</space:local>" or "</local>"
CloseText(name) ==
    IF ~HasPrefix(name.Space, s_http)
    THEN <<60, 47>> \o name.Space \o <<58>> \o name.Local \o <<62>>
    ELSE <<60, 47>> \o name.Local \o <<62>>

CloseLine(name) == IF ~HasPrefix(name.Space, s_http) THEN 56 ELSE 58

\* the End case without namespaces.Pop()
EndCase_NoPop(loc, t) ==
    [loc EXCEPT !.outWriter = Append(loc.outWriter,
                                     Chunk(CloseLine(t.Name), CloseText(t.Name)))]

\* the result of namespaces.Pop() is discarded
EndCase(loc, t) ==
    [loc EXCEPT !.namespaces = Pop(loc.namespaces).s,
                !.outWriter = Append(loc.outWriter,
                                     Chunk(CloseLine(t.Name), CloseText(t.Name)))]

\* character data written with "&" escaped as "&amp;"
RECURSIVE EscapeText(_)
EscapeText(bytes) ==
    IF bytes = <<>> THEN <<>>
    ELSE (IF bytes[1] = 38 THEN <<38, 97, 109, 112, 59>> ELSE <<bytes[1]>>)
             \o EscapeText(Tail(bytes))

CharDataCase_Escaped(loc, t) ==
    [loc EXCEPT !.outWriter = Append(loc.outWriter, Chunk(62, EscapeText(t.Data)))]

CharDataCase(loc, t) ==
    [loc EXCEPT !.outWriter = Append(loc.outWriter, Chunk(62, t.Data))]

Step(loc, t) ==
    CASE t.type = "StartElement" -> StartCase(loc, t)
      [] t.type = "EndElement" -> EndCase(loc, t)
      [] t.type = "CharData" -> CharDataCase(loc, t)
      [] OTHER -> loc

InitLocals ==
    [namespaces |-> <<>>, outWriter |-> <<>>, firstElem |-> TRUE, id |-> <<>>]

(***************************************************************************)
(* State of one call of canonicalize.                                      *)
(***************************************************************************)
VARIABLES
    pc,          \* "encode", "loop", "return_25" or "return_66"
    namespaces,  \* the scope stack
    outWriter,   \* chunks written to outWriter and not yet flushed
    out,         \* bytes of the out buffer
    firstElem,
    id,
    ret,         \* the values returned: [out, id, err]
    consumed,    \* the tokens decoder.Token() has returned so far
    other        \* the same state of a second, concurrent call (SpecPair)

callVars == <<pc, namespaces, outWriter, out, firstElem, id, ret, consumed>>

vars == <<pc, namespaces, outWriter, out, firstElem, id, ret, consumed, other>>

Locals ==
    [namespaces |-> namespaces, outWriter |-> outWriter,
     firstElem |-> firstElem, id |-> id]

NoReturn == [out |-> <<>>, id |-> <<>>, err |-> FALSE]

\* a call that has not yet run encoder.Encode
OtherInit ==
    [pc |-> "encode", namespaces |-> <<>>, outWriter |-> <<>>, out |-> <<>>,
     firstElem |-> TRUE, id |-> <<>>, ret |-> NoReturn, consumed |-> <<>>]

Init ==
    /\ pc = "encode"
    /\ namespaces = <<>>
    /\ outWriter = <<>>
    /\ out = <<>>
    /\ firstElem = TRUE
    /\ id = <<>>
    /\ ret = NoReturn
    /\ consumed = <<>>
    /\ other = OtherInit

\* encoder.Encode(data) fails: return nil, "", err
EncodeFail ==
    /\ pc = "encode"
    /\ pc' = "return_25"
    /\ ret' = [out |-> <<>>, id |-> <<>>, err |-> TRUE]
    /\ UNCHANGED <<namespaces, outWriter, out, firstElem, id, consumed, other>>

\* encoder.Encode(data) succeeds: the decoder, the stack and the locals are set up
EncodeOk ==
    /\ pc = "encode"
    /\ pc' = "loop"
    /\ namespaces' = InitLocals.namespaces
    /\ outWriter' = InitLocals.outWriter
    /\ firstElem' = InitLocals.firstElem
    /\ id' = InitLocals.id
    /\ UNCHANGED <<out, ret, consumed, other>>

\* one iteration of the loop in which decoder.Token() returns token t
Iterate(t) ==
    LET loc == Step(Locals, t)
    IN  /\ pc = "loop"
        /\ namespaces' = loc.namespaces
        /\ outWriter' = loc.outWriter
        /\ firstElem' = loc.firstElem
        /\ id' = loc.id
        /\ consumed' = Append(consumed, t)
        /\ UNCHANGED <<pc, out, ret, other>>

\* the return without outWriter.Flush()
Flushed_Missing(buf, writer) == buf

\* what the loop's break leads to: outWriter.Flush(); return out.Bytes(), id, nil
Flushed(buf, writer) == buf \o Bytes(writer)

ReturnValue(buf, ident) == [out |-> buf, id |-> ident, err |-> FALSE]

\* decoder.Token() returns an error (end of input or a decoding fault)
ReadFault ==
    /\ pc = "loop"
    /\ pc' = "return_66"
    /\ out' = Flushed(out, outWriter)
    /\ outWriter' = <<>>
    /\ ret' = ReturnValue(Flushed(out, outWriter), id)
    /\ UNCHANGED <<namespaces, firstElem, id, consumed, other>>

(***************************************************************************)
(* The tokens the decoder delivers in specification Spec.                  *)
(***************************************************************************)
ElemSpaces == {<<>>, ns_a, ns_b, ns_urn}
ElemNames == {Name(sp, <<101>>) : sp \in ElemSpaces}

\* Id="1", ID="2", k="3" and a second Id="4"
att_Id == Attr(<<>>, s_Id, <<49>>)
att_ID == Attr(<<>>, s_ID, <<50>>)
att_k == Attr(<<>>, <<107>>, <<51>>)
att_Id2 == Attr(<<>>, s_Id, <<52>>)
\* xId="5" in namespace "http:b"
att_bxId == Attr(ns_b, <<120>> \o s_Id, <<53>>)
\* xmlns="http:a", and an attribute with local name xmlns in namespace "http:b"
att_xmlns == Attr(<<>>, s_xmlns, ns_a)
att_bxmlns == Attr(ns_b, s_xmlns, <<54>>)
\* xmlns:p="http:b" and xmlns:q="http:b"
att_p == Attr(s_xmlns, <<112>>, ns_b)
att_q == Attr(s_xmlns, <<113>>, ns_b)

StartTokens ==
    {StartElement(n, <<>>) : n \in ElemNames}
        \cup {StartElement(Name(ns_a, <<101>>), <<att_Id, att_p>>),
              StartElement(Name(ns_b, <<101>>), <<att_bxId>>)}

EndTokens == {EndElement(n) : n \in ElemNames}

\* "A&B"
CharTokens == {CharData(<<65, 38, 66>>)}

ReadStart ==
    /\ Len(consumed) < MaxTokens
    /\ \E t \in StartTokens : Iterate(t)

ReadEnd ==
    /\ Len(consumed) < MaxTokens
    /\ \E t \in EndTokens : Iterate(t)

ReadCharData ==
    /\ Len(consumed) < MaxTokens
    /\ \E t \in CharTokens : Iterate(t)

ReadOther ==
    /\ Len(consumed) < MaxTokens
    /\ Iterate(OtherToken)

Next ==
    \/ EncodeFail
    \/ EncodeOk
    \/ ReadStart
    \/ ReadEnd
    \/ ReadCharData
    \/ ReadOther
    \/ ReadFault

Spec == Init /\ [][Next]_vars

(***************************************************************************)
(* Specification SpecRoot: the call up to its first token, a start element *)
(* with any list of at most MaxAttrs attributes of AttrPool.               *)
(***************************************************************************)
AttrPool ==
    {att_Id, att_ID, att_k, att_Id2, att_bxId, att_xmlns, att_bxmlns, att_p, att_q}

AttrLists == UNION {[1..n -> AttrPool] : n \in 0..MaxAttrs}

RootNames == {Name(sp, <<101>>) : sp \in {<<>>, ns_a, ns_urn}}

ReadRootStart ==
    /\ consumed = <<>>
    /\ \E n \in RootNames, attr \in AttrLists : Iterate(StartElement(n, attr))

NextRoot ==
    \/ EncodeOk
    \/ ReadRootStart
    \/ ReadFault

SpecRoot == Init /\ [][NextRoot]_vars

(***************************************************************************)
(* Specification SpecPair: two calls of canonicalize on independent        *)
(* inputs, their steps interleaved in any order.  The first call is the    *)
(* state above; the second call's state is the record other.               *)
(***************************************************************************)
MaxTokensEach == 2

PairTokens ==
    {StartElement(Name(ns_a, <<101>>), <<>>),
     StartElement(Name(ns_b, <<101>>), <<att_bxId>>),
     EndElement(Name(ns_a, <<101>>)),
     CharData(<<65, 38, 66>>)}

\* the second call's locals if the scope stack were one package-level variable
OtherLocals_SharedStack ==
    [namespaces |-> namespaces, outWriter |-> other.outWriter,
     firstElem |-> other.firstElem, id |-> other.id]

\* the second call's own locals
OtherLocals ==
    [namespaces |-> other.namespaces, outWriter |-> other.outWriter,
     firstElem |-> other.firstElem, id |-> other.id]

FirstRead ==
    /\ Len(consumed) < MaxTokensEach
    /\ \E t \in PairTokens : Iterate(t)

SecondEncodeOk ==
    /\ other.pc = "encode"
    /\ other' = [other EXCEPT !.pc = "loop",
                              !.namespaces = InitLocals.namespaces,
                              !.outWriter = InitLocals.outWriter,
                              !.firstElem = InitLocals.firstElem,
                              !.id = InitLocals.id]
    /\ UNCHANGED callVars

SecondRead ==
    /\ other.pc = "loop"
    /\ Len(other.consumed) < MaxTokensEach
    /\ \E t \in PairTokens :
          LET loc == Step(OtherLocals, t)
          IN  other' = [other EXCEPT !.namespaces = loc.namespaces,
                                    !.outWriter = loc.outWriter,
                                    !.firstElem = loc.firstElem,
                                    !.id = loc.id,
                                    !.consumed = Append(other.consumed, t)]
    /\ UNCHANGED callVars

SecondFault ==
    /\ other.pc = "loop"
    /\ other' = [other EXCEPT !.pc = "return_66",
                              !.out = Flushed(other.out, other.outWriter),
                              !.outWriter = <<>>,
                              !.ret = ReturnValue(Flushed(other.out, other.outWriter),
                                                  other.id)]
    /\ UNCHANGED callVars

NextPair ==
    \/ EncodeOk
    \/ FirstRead
    \/ ReadFault
    \/ SecondEncodeOk
    \/ SecondRead
    \/ SecondFault

SpecPair == Init /\ [][NextPair]_vars

(***************************************************************************)
(* What the claims speak about: the locals before and after each consumed  *)
(* token, the chunks and bytes each token added, and text search.          *)
(***************************************************************************)
RECURSIVE LocalsAfter(_, _)
LocalsAfter(toks, n) ==
    IF n = 0 THEN InitLocals
    ELSE Step(LocalsAfter(toks, n - 1), toks[n])

StackBefore(i) == LocalsAfter(consumed, i - 1).namespaces

ChunksOf(i) ==
    LET before == LocalsAfter(consumed, i - 1).outWriter
        after == LocalsAfter(consumed, i).outWriter
    IN  SubSeq(after, Len(before) + 1, Len(after))

TagBytes(i) == Bytes(ChunksOf(i))

Occurrences(s, pat) ==
    {k \in 1..(Len(s) - Len(pat) + 1) : SubSeq(s, k, k + Len(pat) - 1) = pat}

Contains(s, pat) == Occurrences(s, pat) # {}

IsStart(t) == t.type = "StartElement"

StartIndexes == {i \in 1..Len(consumed) : IsStart(consumed[i])}

\* token 1 is the root's Start and token j is the Start of a child of the root
RootChild(j) ==
    /\ Len(consumed) >= j
    /\ j >= 2
    /\ IsStart(consumed[1])
    /\ IsStart(consumed[j])
    /\ \A k \in 2..(j - 1) : consumed[k].type \in {"CharData", "Other"}

ChildIndexes == {j \in 2..Len(consumed) : RootChild(j)}

\* the text written so far, flushed or not
Written == out \o Bytes(outWriter)

(***************************************************************************)
(* C1: namespace suppression.                                              *)
(***************************************************************************)
\* a Start whose namespace equals the top of the stack writes no xmlns="..."
C1_SameAsTopSilent ==
    \A i \in StartIndexes :
        LET top == Top(StackBefore(i))
        IN  (~top.err /\ top.val = consumed[i].Name.Space)
                => ~Contains(TagBytes(i), s_xmlnsDecl)

\* C1 as stated: a root and a child with the same namespace URI: xmlns="<uri>"
\* is written exactly once, in the root's start tag, and not in the child's
C1_Original ==
    /\ \A j \in ChildIndexes :
          LET uri == consumed[1].Name.Space
          IN  (uri # <<>> /\ consumed[j].Name.Space = uri)
                  => /\ Cardinality(Occurrences(TagBytes(1), XmlnsText(uri))) = 1
                     /\ ~Contains(TagBytes(j), s_xmlnsDecl)
    /\ C1_SameAsTopSilent

\* C1 amended: a root and a child with the same namespace URI beginning with
\* "http": xmlns="<uri>" is written exactly once, in the root's start tag, and
\* not in the child's; a root and a child with the same namespace URI not
\* beginning with "http" write no xmlns="..." at all; and any Start whose
\* namespace equals the top of the stack writes no xmlns="..."
C1_Suppression ==
    /\ \A j \in ChildIndexes :
          LET uri == consumed[1].Name.Space
          IN  consumed[j].Name.Space = uri
                  => IF HasPrefix(uri, s_http)
                     THEN /\ Cardinality(Occurrences(TagBytes(1), XmlnsText(uri))) = 1
                          /\ ~Contains(TagBytes(j), s_xmlnsDecl)
                     ELSE /\ ~Contains(TagBytes(1), s_xmlnsDecl)
                          /\ ~Contains(TagBytes(j), s_xmlnsDecl)
    /\ C1_SameAsTopSilent

\* a root in "http:a" and its child in "http:a" have both been written
C1_Witness ==
    /\ pc = "loop"
    /\ \E j \in ChildIndexes :
          /\ consumed[1].Name.Space = ns_a
          /\ consumed[j].Name.Space = ns_a
          /\ Contains(Written, XmlnsText(ns_a))

(***************************************************************************)
(* C2: namespace re-declaration.                                           *)
(***************************************************************************)
\* C2 as stated: a root with namespace URI A and a child with a different
\* namespace URI B: an xmlns declaration is written in both start tags
C2_Original ==
    \A j \in ChildIndexes :
        LET A == consumed[1].Name.Space
            B == consumed[j].Name.Space
        IN  (A # <<>> /\ B # <<>> /\ A # B)
                => /\ Contains(TagBytes(1), XmlnsText(A))
                   /\ Contains(TagBytes(j), XmlnsText(B))

\* C2 amended: of a root with namespace URI A and a child with a different
\* namespace URI B, each one whose URI begins with "http" has xmlns="<its URI>"
\* in its start tag, and each one whose URI does not has no xmlns="..."
C2_Redeclaration ==
    \A j \in ChildIndexes :
        LET A == consumed[1].Name.Space
            B == consumed[j].Name.Space
        IN  A # B
                => /\ IF HasPrefix(A, s_http)
                      THEN Contains(TagBytes(1), XmlnsText(A))
                      ELSE ~Contains(TagBytes(1), s_xmlnsDecl)
                   /\ IF HasPrefix(B, s_http)
                      THEN Contains(TagBytes(j), XmlnsText(B))
                      ELSE ~Contains(TagBytes(j), s_xmlnsDecl)

\* a root in "http:a" and its child in "http:b" have both been written
C2_Witness ==
    /\ pc = "loop"
    /\ \E j \in ChildIndexes :
          /\ consumed[1].Name.Space = ns_a
          /\ consumed[j].Name.Space = ns_b
          /\ Contains(Written, XmlnsText(ns_a))
          /\ Contains(Written, XmlnsText(ns_b))

(***************************************************************************)
(* C4: the identifier is the value of the last qualifying attribute of the *)
(* first start element, in the order the token carries them.               *)
(***************************************************************************)
FirstStart == CHOOSE i \in StartIndexes : \A k \in StartIndexes : i <= k

QualifyingIndexes(attr) ==
    {i \in 1..Len(attr) :
        LET localName == attr[i].Name.Local
        IN  \/ localName = s_ID
            \/ localName = s_Id
            \/ (Len(localName) >= 2
                /\ localName[Len(localName) - 1] = 73
                /\ localName[Len(localName)] = 100)}

LastQualifyingValue(attr) ==
    LET q == QualifyingIndexes(attr)
    IN  IF q = {} THEN <<>>
        ELSE attr[CHOOSE i \in q : \A k \in q : k <= i].Value

ExpectedId ==
    IF StartIndexes = {} THEN <<>>
    ELSE LastQualifyingValue(consumed[FirstStart].Attr)

\* C4: once the first Start token has been processed the identifier is the
\* value of its last qualifying attribute in input order, the empty string when
\* it has none, and that is the identifier returned
C4_LastMatchWins ==
    /\ pc \in {"loop", "return_66"} => id = ExpectedId
    /\ pc = "return_66" => ret.id = ExpectedId

\* the root carried two qualifying attributes whose sorted order is the
\* reverse of their input order, and the call has returned
C4_Witness ==
    /\ pc = "return_66"
    /\ Len(consumed) = 1
    /\ IsStart(consumed[1])
    /\ Len(consumed[1].Attr) >= 2
    /\ consumed[1].Attr[1] = att_Id
    /\ consumed[1].Attr[2] = att_ID
    /\ ret.id = att_ID.Value

(***************************************************************************)
(* C5: the identifier is settled by the first start element.               *)
(***************************************************************************)
\* C5: once the first Start token has been processed (firstElem is false) no
\* step changes the identifier
C5_IdSettled == [][(pc = "loop" /\ ~firstElem) => id' = id]_vars

\* a later Start with a qualifying attribute has been processed and the
\* identifier is still the empty one the first Start left
C5_Witness ==
    /\ pc = "loop"
    /\ Len(consumed) >= 2
    /\ IsStart(consumed[1])
    /\ QualifyingIndexes(consumed[1].Attr) = {}
    /\ IsStart(consumed[Len(consumed)])
    /\ QualifyingIndexes(consumed[Len(consumed)].Attr) # {}
    /\ id = <<>>

(***************************************************************************)
(* C6: Less as a strict total order on the attributes of a start element.  *)
(***************************************************************************)
\* C6 as stated: on the attributes of a start element Less is irreflexive,
\* asymmetric and transitive, and of two attributes with different qualified
\* names exactly one is Less than the other
C6_Original ==
    \A s \in StartIndexes :
        LET att == consumed[s].Attr
            I == 1..Len(att)
        IN  /\ \A i \in I : ~Less(att, i, i)
            /\ \A i, j \in I : ~(Less(att, i, j) /\ Less(att, j, i))
            /\ \A i, j, k \in I :
                  (Less(att, i, j) /\ Less(att, j, k)) => Less(att, i, k)
            /\ \A i, j \in I :
                  att[i].Name # att[j].Name
                      => (Less(att, i, j) /\ ~Less(att, j, i))
                            \/ (Less(att, j, i) /\ ~Less(att, i, j))

(***************************************************************************)
(* C7: the attributes written do not depend on their input order.          *)
(***************************************************************************)
\* the start tag written for the same element with its attributes permuted by p
PermutedTag(i, p) ==
    LET t == consumed[i]
        before == LocalsAfter(consumed, i - 1)
        u == StartElement(t.Name, [k \in 1..Len(t.Attr) |-> t.Attr[p[k]]])
    IN  Bytes(writeStartElement(<<>>, u, before.namespaces).writer)

DistinctNames(attr) ==
    \A i, j \in 1..Len(attr) : i # j => attr[i].Name # attr[j].Name

\* C7 as stated: every input order of a start element's attributes gives the
\* same start tag
C7_Original ==
    \A i \in StartIndexes :
        \A p \in Permutations(1..Len(consumed[i].Attr)) :
            PermutedTag(i, p) = TagBytes(i)

\* C7 amended: every input order of a start element's attributes gives the same
\* start tag, provided no two of the attributes have the same qualified name
C7_OrderIndependent ==
    \A i \in StartIndexes :
        DistinctNames(consumed[i].Attr)
            => \A p \in Permutations(1..Len(consumed[i].Attr)) :
                   PermutedTag(i, p) = TagBytes(i)

\* a root with three attributes of different names, given in an order that is
\* not the canonical one, has been written
C7_Witness ==
    /\ pc = "loop"
    /\ Len(consumed) = 1
    /\ IsStart(consumed[1])
    /\ consumed[1].Attr = <<att_bxId, att_Id, att_p>>
    /\ ChunksOf(1)[3].att = att_p

(***************************************************************************)
(* C8: the order of what a start tag carries.                              *)
(***************************************************************************)
AttLines == {106, 112, 114}

\* (namespace, local name) of a is not after that of b
NameNotAfter(a, b) ==
    \/ StrLess(a.Name.Space, b.Name.Space)
    \/ (a.Name.Space = b.Name.Space /\ ~StrLess(b.Name.Local, a.Name.Local))

TagInOrder(chunks) ==
    LET n == Len(chunks)
    IN  /\ n >= 2
        /\ chunks[1].line \in {90, 92}
        /\ chunks[n].line = 117
        \* xmlns="..." only right after the name
        /\ \A k \in 3..n : chunks[k].line \notin {75, 81}
        /\ \A k \in 2..(n - 1) : chunks[k].line \in AttLines \cup {75, 81}
        \* declarations before ordinary attributes
        /\ \A k, m \in 2..(n - 1) :
              (chunks[k].line \in {112, 114} /\ chunks[m].line = 106) => m < k
        \* declarations by ascending prefix
        /\ \A k, m \in 2..(n - 1) :
              (k < m /\ chunks[k].line = 106 /\ chunks[m].line = 106)
                  => ~StrLess(chunks[m].att.Name.Local, chunks[k].att.Name.Local)
        \* ordinary attributes by ascending (namespace, local name)
        /\ \A k, m \in 2..(n - 1) :
              (k < m /\ chunks[k].line \in {112, 114} /\ chunks[m].line \in {112, 114})
                  => NameNotAfter(chunks[k].att, chunks[m].att)

\* C8: in every start tag xmlns="..." (when written) comes right after the
\* name, then the xmlns:<prefix> declarations by ascending prefix, then the
\* ordinary attributes by ascending (namespace URI, local name)
C8_TagOrder == \A i \in StartIndexes : TagInOrder(ChunksOf(i))

\* a root that gets xmlns="http:a", a prefix declaration and two ordinary
\* attributes in different namespaces, given ordinary attributes first
C8_Witness ==
    /\ pc = "loop"
    /\ Len(consumed) = 1
    /\ IsStart(consumed[1])
    /\ consumed[1].Attr = <<att_bxId, att_Id, att_p>>
    /\ [k \in 1..Len(ChunksOf(1)) |-> ChunksOf(1)[k].line] = <<92, 75, 106, 112, 114, 117>>

(***************************************************************************)
(* C9: an End token on an empty stack.                                     *)
(***************************************************************************)
Underflowed ==
    \E i \in 1..Len(consumed) :
        consumed[i].type = "EndElement" /\ StackBefore(i) = <<>>

RECURSIVE Renderings(_)
Renderings(k) ==
    IF k = 0 THEN <<>>
    ELSE Renderings(k - 1) \o TagBytes(k)

\* C10: when the token read faults after k tokens the call returns no error,
\* the renderings of the k tokens in order, and the identifier extracted so far
C10_FaultReturns ==
    pc = "return_66"
        => /\ ~ret.err
           /\ ret.out = Renderings(Len(consumed))
           /\ ret.id = ExpectedId

\* the read faulted after three tokens with an element still open
C10_Witness ==
    /\ pc = "return_66"
    /\ Len(consumed) = 3
    /\ namespaces # <<>>
    /\ ret.out # <<>>
    /\ ret.id # <<>>

(***************************************************************************)
(* Well-nested token streams: the open elements after n tokens, as the     *)
(* indexes of their Start tokens, outermost first.                         *)
(***************************************************************************)
RECURSIVE OpenIdx(_)
OpenIdx(n) ==
    IF n = 0 THEN <<>>
    ELSE LET open == OpenIdx(n - 1)
         IN  IF consumed[n].type = "StartElement" THEN Append(open, n)
             ELSE IF consumed[n].type = "EndElement" /\ open # <<>>
                  THEN SubSeq(open, 1, Len(open) - 1)
             ELSE open

EndIndexes == {i \in 1..Len(consumed) : consumed[i].type = "EndElement"}

\* every End closes the innermost open element, by name
WellNested ==
    \A i \in EndIndexes :
        LET open == OpenIdx(i - 1)
        IN  /\ open # <<>>
            /\ consumed[open[Len(open)]].Name = consumed[i].Name

(***************************************************************************)
(* C11: the depth of the scope stack.                                      *)
(***************************************************************************)
\* C11: after any prefix of a well-nested token stream the scope stack has as
\* many entries as Starts were processed minus Ends processed
C11_DepthIsNesting ==
    (pc = "loop" /\ WellNested)
        => Len(namespaces) = Cardinality(StartIndexes) - Cardinality(EndIndexes)

\* two elements are open after a Start that declared, a Start in the same
\* namespace that did not, its End, and a Start without a namespace
C11_Witness ==
    /\ pc = "loop"
    /\ WellNested
    /\ Len(consumed) = 4
    /\ IsStart(consumed[1]) /\ consumed[1].Name.Space = ns_a
    /\ IsStart(consumed[2]) /\ consumed[2].Name.Space = ns_a
    /\ consumed[3].type = "EndElement"
    /\ IsStart(consumed[4]) /\ consumed[4].Name.Space = <<>>
    /\ Len(namespaces) = 2

(***************************************************************************)
(* C12: character data is passed through.                                  *)
(***************************************************************************)
\* C12: a step that processes a CharData token appends exactly its bytes to
\* the output and leaves the scope stack, firstElem, the identifier and the
\* out buffer as they were
C12_CharDataPassthrough ==
    [][(Len(consumed') = Len(consumed) + 1
            /\ consumed'[Len(consumed')].type = "CharData")
        => /\ Bytes(outWriter') = Bytes(outWriter) \o consumed'[Len(consumed')].Data
           /\ namespaces' = namespaces
           /\ firstElem' = firstElem
           /\ id' = id
           /\ out' = out]_vars

\* the text "A&B" has been written inside an open element
C12_Witness ==
    /\ pc = "loop"
    /\ Len(consumed) = 2
    /\ IsStart(consumed[1])
    /\ consumed[2].type = "CharData"
    /\ consumed[2].Data = <<65, 38, 66>>
    /\ HasSuffix(Bytes(outWriter), <<62, 65, 38, 66>>)
    /\ namespaces # <<>>

(***************************************************************************)
(* C13: two concurrent calls do not affect each other.                     *)
(***************************************************************************)
\* what a call that reads the tokens toks returns when it runs alone
AloneResult(toks) ==
    LET loc == LocalsAfter(toks, Len(toks))
    IN  [out |-> Bytes(loc.outWriter), id |-> loc.id, err |-> FALSE]

\* C13: however the steps of two calls interleave, each call's stack, writer,
\* firstElem and identifier are at every point what its own tokens alone lead
\* to, and each call returns what it returns when run alone
C13_Reentrant ==
    /\ pc = "loop" => Locals = LocalsAfter(consumed, Len(consumed))
    /\ pc = "return_66" => ret = AloneResult(consumed)
    /\ other.pc = "loop"
          => [namespaces |-> other.namespaces, outWriter |-> other.outWriter,
              firstElem |-> other.firstElem, id |-> other.id]
                 = LocalsAfter(other.consumed, Len(other.consumed))
    /\ other.pc = "return_66" => other.ret = AloneResult(other.consumed)

\* both calls have returned, each after two tokens, with different outputs
\* and different stacks
C13_Witness ==
    /\ pc = "return_66"
    /\ other.pc = "return_66"
    /\ Len(consumed) = 2
    /\ Len(other.consumed) = 2
    /\ ret.out # other.ret.out
    /\ ret.id # other.ret.id
    /\ namespaces # other.namespaces

(***************************************************************************)
(* C14: what the top of the scope stack is.                                *)
(***************************************************************************)
OpenNow == OpenIdx(Len(consumed))

\* the open elements that have a namespace, as positions in OpenNow
OpenWithNamespace ==
    {k \in 1..Len(OpenNow) : consumed[OpenNow[k]].Name.Space # <<>>}

\* C14 as stated: with an element open, the top of the scope stack is the
\* namespace of the innermost open element that has a non-empty namespace
C14_Original ==
    (pc = "loop" /\ WellNested /\ OpenWithNamespace # {})
        => LET k == CHOOSE m \in OpenWithNamespace :
                        \A n \in OpenWithNamespace : n <= m
           IN  /\ ~Top(namespaces).err
               /\ Top(namespaces).val = consumed[OpenNow[k]].Name.Space

\* C14 amended: with an element open, the top of the scope stack is the
\* namespace of the innermost open element, the empty string when that
\* element has no namespace
C14_TopIsInnermost ==
    (pc = "loop" /\ WellNested /\ OpenNow # <<>>)
        => /\ ~Top(namespaces).err
           /\ Top(namespaces).val = consumed[OpenNow[Len(OpenNow)]].Name.Space

\* after a root in "http:a" and a closed child in "http:b" the top is "http:a"
\* again, which the next sibling was compared against
C14_Witness ==
    /\ pc = "loop"
    /\ WellNested
    /\ Len(consumed) = 4
    /\ IsStart(consumed[1]) /\ consumed[1].Name.Space = ns_a
    /\ IsStart(consumed[2]) /\ consumed[2].Name.Space = ns_b
    /\ consumed[3].type = "EndElement"
    /\ IsStart(consumed[4]) /\ consumed[4].Name.Space = ns_a
    /\ StackBefore(4) = <<ns_a>>
    /\ ~Contains(TagBytes(4), s_xmlnsDecl)
    /\ Top(namespaces).val = ns_a

(***************************************************************************)
(* C15: close tags mirror open tags.                                       *)
(***************************************************************************)
\* the name as the claim has it rendered: "space:local" (":local" for an empty
\* namespace) unless the namespace starts with "http", then "local"
RenderedName(name) ==
    IF Len(name.Space) >= 4 /\ SubSeq(name.Space, 1, 4) = <<104, 116, 116, 112>>
    THEN name.Local
    ELSE name.Space \o <<58>> \o name.Local

\* C15: in a well-nested stream every End writes "</" name ">" where "<" name
\* is what the Start it closes wrote first, and name is the rendered name of
\* the element
C15_CloseMirrorsOpen ==
    (pc = "loop" /\ WellNested)
        => \A j \in EndIndexes :
               LET open == OpenIdx(j - 1)
                   i == open[Len(open)]
                   openText == ChunksOf(i)[1].text
                   closeText == TagBytes(j)
               IN  /\ openText = <<60>> \o RenderedName(consumed[i].Name)
                   /\ closeText = <<60, 47>> \o Tail(openText) \o <<62>>

\* an element without namespace inside one in "http:a", both closed:
\* the output ends with "</:e></e>"
C15_Witness ==
    /\ pc = "loop"
    /\ WellNested
    /\ Len(consumed) = 4
    /\ IsStart(consumed[1]) /\ consumed[1].Name.Space = ns_a
    /\ IsStart(consumed[2]) /\ consumed[2].Name.Space = <<>>
    /\ namespaces = <<>>
    /\ HasSuffix(Bytes(outWriter), <<60, 47, 58, 101, 62, 60, 47, 101, 62>>)

(***************************************************************************)
(* C16: the prefix map belongs to one start element.                       *)
(***************************************************************************)
\* an attribute that is neither xmlns="..." nor xmlns:<prefix>="..." and has a
\* namespace
IsNamespacedAttr(a) ==
    /\ a.Name.Local # s_xmlns
    /\ a.Name.Space # s_xmlns
    /\ a.Name.Space # <<>>

\* the prefixes that the attributes attr declare for the namespace uri
DeclaredPrefixes(attr, uri) ==
    {attr[k].Name.Local : k \in {m \in 1..Len(attr) :
        /\ attr[m].Name.Space = s_xmlns
        /\ attr[m].Name.Local # s_xmlns
        /\ attr[m].Value = uri}}

\* " <prefix>:<local>=\"<value>\"" as the claim has it
ExpectedAttText(prefix, a) ==
    <<32>> \o prefix \o <<58>> \o a.Name.Local \o <<61, 34>> \o a.Value \o <<34>>

\* C16: a namespaced attribute whose namespace no xmlns:<prefix> attribute of
\* the same element declares is written as ":local=\"value\"", whatever the
\* elements before it declared, and the start tag is completed
C16_PrefixMapPerElement ==
    \A i \in StartIndexes :
        \A k \in 1..Len(consumed[i].Attr) :
            LET a == consumed[i].Attr[k]
            IN  (IsNamespacedAttr(a) /\ DeclaredPrefixes(consumed[i].Attr, a.Name.Space) = {})
                    => /\ Contains(TagBytes(i), ExpectedAttText(<<>>, a))
                       /\ HasSuffix(TagBytes(i), <<34, 62>>)

\* the root declared xmlns:p="http:b", its child carries xId in "http:b"
\* without declaring it, and the text after the child has been written:
\* the output ends with " :xId=\"5\">A&B"
C16_Witness ==
    /\ pc = "loop"
    /\ Len(consumed) = 3
    /\ IsStart(consumed[1]) /\ consumed[1].Attr = <<att_Id, att_p>>
    /\ IsStart(consumed[2]) /\ consumed[2].Attr = <<att_bxId>>
    /\ consumed[3].type = "CharData"
    /\ HasSuffix(Bytes(outWriter),
                 <<32, 58, 120, 73, 100, 61, 34, 53, 34, 62, 65, 38, 66>>)

(***************************************************************************)
(* C17: the default namespace in force in the output.                      *)
(***************************************************************************)
\* C17: in a well-nested stream every element written with a bare name has,
\* among itself and its open ancestors, a start tag with xmlns="...", and the
\* nearest such tag declares the element's own namespace
C17_DefaultNamespaceInForce ==
    (pc = "loop" /\ WellNested)
        => \A i \in StartIndexes :
               LET uri == consumed[i].Name.Space
                   chain == OpenIdx(i)
                   declaring == {k \in 1..Len(chain) :
                                    Contains(TagBytes(chain[k]), s_xmlnsDecl)}
               IN  HasPrefix(uri, s_http)
                       => /\ declaring # {}
                          /\ LET k == CHOOSE m \in declaring : \A n \in declaring : n <= m
                             IN  Contains(TagBytes(chain[k]), XmlnsText(uri))

\* a root in "http:a", a child without namespace and a grandchild in "http:a"
\* that declares it again
C17_Witness ==
    /\ pc = "loop"
    /\ WellNested
    /\ Len(consumed) >= 3
    /\ IsStart(consumed[1]) /\ consumed[1].Name.Space = ns_a
    /\ IsStart(consumed[2]) /\ consumed[2].Name.Space = <<>>
    /\ IsStart(consumed[3]) /\ consumed[3].Name.Space = ns_a
    /\ Contains(TagBytes(3), XmlnsText(ns_a))

(***************************************************************************)
(* C18: a prefix is recorded before the attributes that use it.            *)
(***************************************************************************)
GreatestPrefix(prefixes) ==
    CHOOSE p \in prefixes : \A q \in prefixes : ~StrLess(p, q)

\* C18: whatever the input order, a namespaced attribute whose namespace the
\* same element declares with xmlns:<prefix> is written with the greatest such
\* prefix and not with an empty one
C18_DeclaredBeforeUse ==
    \A i \in StartIndexes :
        \A k \in 1..Len(consumed[i].Attr) :
            LET a == consumed[i].Attr[k]
                prefixes == DeclaredPrefixes(consumed[i].Attr, a.Name.Space)
            IN  (IsNamespacedAttr(a) /\ prefixes # {})
                    => /\ Contains(TagBytes(i), ExpectedAttText(GreatestPrefix(prefixes), a))
                       /\ ~Contains(TagBytes(i), ExpectedAttText(<<>>, a))

\* xId in "http:b" came first in the input, before xmlns:q and xmlns:p for
\* "http:b", and was written as q:xId="5"
C18_Witness ==
    /\ pc = "loop"
    /\ Len(consumed) = 1
    /\ IsStart(consumed[1])
    /\ consumed[1].Attr = <<att_bxId, att_q, att_p>>
    /\ Contains(Bytes(outWriter),
                <<32, 113, 58, 120, 73, 100, 61, 34, 53, 34>>)

(***************************************************************************)
(* C19: a start tag carries the input attributes and nothing else.         *)
(***************************************************************************)
\* how many positions of the sequence seq hold a value that satisfies Test
CountOf(seq, Test(_)) == Cardinality({k \in 1..Len(seq) : Test(seq[k])})

TagCarriesInput(start, chunks) ==
    LET n == Len(chunks)
        inner == SubSeq(chunks, 2, n - 1)
        IsAttChunk(c) == c.line \in AttLines
        IsOtherChunk(c) == c.line \notin AttLines
        atts == {start.Attr[k] : k \in 1..Len(start.Attr)}
                    \cup {inner[k].att : k \in {m \in 1..Len(inner) : IsAttChunk(inner[m])}}
    IN  /\ n >= 2
        /\ chunks[1].text = <<60>> \o RenderedName(start.Name)
        /\ chunks[n].text = <<62>>
        \* every attribute not named xmlns once for each time the input has it
        /\ \A a \in atts :
              LET Written_a(c) == IsAttChunk(c) /\ c.att = a
                  Input_a(b) == b = a /\ b.Name.Local # s_xmlns
              IN  CountOf(inner, Written_a) = CountOf(start.Attr, Input_a)
        \* with its local name and its value, unchanged
        /\ \A k \in 1..Len(inner) :
              IsAttChunk(inner[k])
                  => HasSuffix(inner[k].text,
                               <<58>> \o inner[k].att.Name.Local \o <<61, 34>>
                                   \o inner[k].att.Value \o <<34>>)
                     \/ inner[k].text
                            = <<32>> \o inner[k].att.Name.Local \o <<61, 34>>
                                  \o inner[k].att.Value \o <<34>>
        \* and besides them at most one xmlns="<the element's namespace>"
        /\ CountOf(inner, IsOtherChunk) <= 1
        /\ \A k \in 1..Len(inner) :
              IsOtherChunk(inner[k]) => inner[k].text = XmlnsText(start.Name.Space)

\* C19: every start tag carries each input attribute whose local name is not
\* xmlns exactly once, with its value unchanged, and besides the element name
\* and these attributes at most one xmlns="..." of the element's own namespace
C19_AttributesKept ==
    \A i \in StartIndexes : TagCarriesInput(consumed[i], ChunksOf(i))

\* a root in "http:a" given xId in the undeclared "http:b", xmlns="http:a" and
\* Id: the tag carries the declaration, Id and :xId
C19_Witness ==
    /\ pc = "loop"
    /\ Len(consumed) = 1
    /\ IsStart(consumed[1])
    /\ consumed[1].Name.Space = ns_a
    /\ consumed[1].Attr = <<att_bxId, att_xmlns, att_Id>>
    /\ [k \in 1..Len(outWriter) |-> outWriter[k].line] = <<92, 75, 112, 114, 117>>

====
